---- MODULE Spec2Model ----
(***************************************************************************)
(* Model of testtool_ex.py: a linear geoprocessing script that removes two *)
(* stale outputs, buffers major_roads and clips tracts by the buffer.      *)
(* The geodatabase is a map from dataset path to content; the geometry     *)
(* operations of the external library are uninterpreted constructors.      *)
(***************************************************************************)
EXTENDS Integers, Sequences, FiniteSets, TLC

\* ---- bounds of the model ----
MaxParam == 2       \* distance values "1" .. "MaxParam" may be supplied
MaxData == 2        \* distinct contents an input or a stale output may hold
MaxRuns == 2        \* number of invocations of the script on the same store

\* ---- local variables of the script (lines 13-16) ----
tracts == "tabletesting.gdb/tracts"
major_roads == "tabletesting.gdb/major_roads"
major_roads_Buffer == "tabletesting.gdb/major_roads_Buffer"
tracts_Clip == "tabletesting.gdb/tracts_Clip"

VARIABLES
    pc,         \* line of the script about to execute, or "done" / "failed"
    store,      \* the geodatabase: path -> content (Absent when not there)
    param,      \* run-time parameter 0 as supplied by the caller
    inputdata,  \* the script variable assigned on line 21
    calls,      \* external calls made so far in this run, in order
    run,        \* number of the current invocation
    store0,     \* the store as it was when the current invocation started
    prev        \* parameter and outputs of the latest successful invocation

vars == <<pc, store, param, inputdata, calls, run, store0, prev>>

Paths == {tracts, major_roads, major_roads_Buffer, tracts_Clip}
Inputs == {tracts, major_roads}
Outputs == {major_roads_Buffer, tracts_Clip}

\* ---- contents of a dataset ----
Absent == [kind |-> "absent"]
Data(n) == [kind |-> "data", id |-> n]
Partial == [kind |-> "partial"]
Unassigned == "<unassigned>"
NoPrev == [kind |-> "none"]

ParamValues == {ToString(n) : n \in 1..MaxParam}
DataValues == {Data(n) : n \in 1..MaxData}

\* ---- the external operation surface ----
\* arcpy.Exists(path)
Exists(s, path) == s[path] # Absent

\* arcpy.Delete_management(path, kind): the dataset is gone afterwards
DeleteResult(s, path) == [s EXCEPT ![path] = Absent]

\* geometry produced by Buffer_analysis: determined by its inputs only
BufferGeom(in, dist, side, caps, dissolve, field, method) ==
    [kind |-> "buffer", in |-> in, dist |-> dist, side |-> side, caps |-> caps,
     dissolve |-> dissolve, field |-> field, method |-> method]

\* geometry produced by Clip_analysis: determined by its inputs only
ClipGeom(in, clipf, tol) ==
    [kind |-> "clip", in |-> in, clipf |-> clipf, tol |-> tol]

\* arcpy.Buffer_analysis(in, out, dist, side, caps, dissolve, field, method)
BufferResult(s, in, out, dist, side, caps, dissolve, field, method) ==
    [s EXCEPT ![out] = BufferGeom(s[in], dist, side, caps, dissolve, field, method)]

\* arcpy.Clip_analysis(in, clip_features, out, tol)
ClipResult(s, in, clipf, out, tol) ==
    [s EXCEPT ![out] = ClipGeom(s[in], s[clipf], tol)]

\* a failed tool may leave nothing or a partial dataset at its output
FailedWrite(s, out) == {s, [s EXCEPT ![out] = Partial]}

\* a failed delete may or may not have removed the dataset
FailedDelete(s, path) == {s, [s EXCEPT ![path] = Absent]}

\* how a Python bool reads in the call log
BoolText(b) == IF b THEN "True" ELSE "False"

Call(op, args, result) == [op |-> op, args |-> args, result |-> result]

\* ---- arguments the script passes, line by line ----
\* variants of the arguments and of the control flow, each a slip the script
\* could contain; used to show that the properties below depend on the code
Delete1Path_M == tracts_Clip
Delete2Path_M == tracts
Guard2Path_M == major_roads_Buffer
DistanceExpr_M(v) == v \o " Meters"
ClipArgs_M == <<tracts, major_roads, tracts_Clip, "">>
ClipArgs_M2 == <<tracts, major_roads_Buffer, major_roads, "">>
OnError_M == "L34"
AfterDelete1_M == "L31"
AfterGuard2_M(found) == "L31"
AfterBuffer_M == "done"

Guard1Path == major_roads_Buffer                  \* line 23
Delete1Path == major_roads_Buffer                 \* line 25
Guard2Path == tracts_Clip                         \* line 26
Delete2Path == tracts_Clip                        \* line 28
DistanceExpr(v) == v \o " Miles"                  \* line 31
BufferArgs(v) ==                                  \* line 31
    <<major_roads, major_roads_Buffer, DistanceExpr(v), "FULL", "ROUND", "ALL", "", "PLANAR">>
ClipArgs == <<tracts, major_roads_Buffer, tracts_Clip, "">>   \* line 34

\* what follows an uncaught exception: the interpreter exits
OnError == "failed"

\* statement after each step
AfterGetParameter == "L23"
AfterGuard1(found) == IF found THEN "L25" ELSE "L26"
AfterDelete1 == "L26"
AfterGuard2(found) == IF found THEN "L28" ELSE "L31"
AfterDelete2 == "L31"
AfterBuffer == "L34"
AfterClip == "done"

StoreValues == DataValues \cup {Absent}

Init ==
    /\ pc = "L21"
    /\ store \in [Paths -> StoreValues]
    /\ param \in ParamValues
    /\ inputdata = Unassigned
    /\ calls = <<>>
    /\ run = 1
    /\ store0 = store
    /\ prev = NoPrev

\* line 21: inputdata = arcpy.GetParameterAsText(0)
GetParameter ==
    /\ pc = "L21"
    /\ \/ /\ inputdata' = param
          /\ calls' = Append(calls, Call("GetParameterAsText", <<"0">>, "ok"))
          /\ pc' = AfterGetParameter
       \/ /\ inputdata' = inputdata
          /\ calls' = Append(calls, Call("GetParameterAsText", <<"0">>, "raised"))
          /\ pc' = OnError
    /\ UNCHANGED <<store, param, run, store0, prev>>

\* line 23: if arcpy.Exists(major_roads_Buffer):
Guard1 ==
    /\ pc = "L23"
    /\ \/ /\ calls' = Append(calls, Call("Exists", <<Guard1Path>>, BoolText(Exists(store, Guard1Path))))
          /\ pc' = AfterGuard1(Exists(store, Guard1Path))
       \/ /\ calls' = Append(calls, Call("Exists", <<Guard1Path>>, "raised"))
          /\ pc' = OnError
    /\ UNCHANGED <<store, param, inputdata, run, store0, prev>>

\* line 26: if arcpy.Exists(tracts_Clip):
Guard2 ==
    /\ pc = "L26"
    /\ \/ /\ calls' = Append(calls, Call("Exists", <<Guard2Path>>, BoolText(Exists(store, Guard2Path))))
          /\ pc' = AfterGuard2(Exists(store, Guard2Path))
       \/ /\ calls' = Append(calls, Call("Exists", <<Guard2Path>>, "raised"))
          /\ pc' = OnError
    /\ UNCHANGED <<store, param, inputdata, run, store0, prev>>

\* a deletion: arcpy.Delete_management(path, "FeatureClass")
Delete(at, path, after) ==
    /\ pc = at
    /\ \/ /\ store' = DeleteResult(store, path)
          /\ calls' = Append(calls, Call("Delete_management", <<path, "FeatureClass">>, "ok"))
          /\ pc' = after
       \/ /\ store' \in FailedDelete(store, path)
          /\ calls' = Append(calls, Call("Delete_management", <<path, "FeatureClass">>, "raised"))
          /\ pc' = OnError
    /\ UNCHANGED <<param, inputdata, run, store0, prev>>

\* line 25
Delete1 == Delete("L25", Delete1Path, AfterDelete1)
\* line 28
Delete2 == Delete("L28", Delete2Path, AfterDelete2)

\* line 31: arcpy.Buffer_analysis(major_roads, major_roads_Buffer, inputdata + " Miles", ...)
Buffer ==
    /\ pc = "L31"
    /\ LET a == BufferArgs(inputdata) IN
       \/ /\ Exists(store, a[1])
          /\ store' = BufferResult(store, a[1], a[2], a[3], a[4], a[5], a[6], a[7], a[8])
          /\ calls' = Append(calls, Call("Buffer_analysis", a, "ok"))
          /\ pc' = AfterBuffer
       \/ /\ store' \in FailedWrite(store, a[2])
          /\ calls' = Append(calls, Call("Buffer_analysis", a, "raised"))
          /\ pc' = OnError
    /\ UNCHANGED <<param, inputdata, run, store0, prev>>

\* line 34: arcpy.Clip_analysis(tracts, major_roads_Buffer, tracts_Clip, "")
Clip ==
    /\ pc = "L34"
    /\ LET a == ClipArgs IN
       \/ /\ Exists(store, a[1]) /\ Exists(store, a[2])
          /\ store' = ClipResult(store, a[1], a[2], a[3], a[4])
          /\ calls' = Append(calls, Call("Clip_analysis", a, "ok"))
          /\ pc' = AfterClip
       \/ /\ store' \in FailedWrite(store, a[3])
          /\ calls' = Append(calls, Call("Clip_analysis", a, "raised"))
          /\ pc' = OnError
    /\ UNCHANGED <<param, inputdata, run, store0, prev>>

\* the tool is invoked again on the store the previous invocation left
Rerun ==
    /\ pc \in {"done", "failed"}
    /\ run < MaxRuns
    /\ run' = run + 1
    /\ pc' = "L21"
    /\ param' \in ParamValues
    /\ inputdata' = Unassigned
    /\ calls' = <<>>
    /\ store0' = store
    /\ prev' = IF pc = "done"
               THEN [kind |-> "run", param |-> param,
                     buffer |-> store[major_roads_Buffer], clip |-> store[tracts_Clip]]
               ELSE prev
    /\ UNCHANGED store

Next ==
    \/ GetParameter
    \/ Guard1
    \/ Delete1
    \/ Guard2
    \/ Delete2
    \/ Buffer
    \/ Clip
    \/ Rerun

Spec == Init /\ [][Next]_vars

\* ---- helpers for the properties ----
Last(q) == q[Len(q)]
IsPrefix(p, q) == Len(p) <= Len(q) /\ \A i \in 1..Len(p) : p[i] = q[i]
CallsOf(op) == {i \in 1..Len(calls) : calls[i].op = op}
\* the operation and the dataset it is aimed at, for every call of the run
Target(c) == IF c.op = "Buffer_analysis" THEN c.args[2]
             ELSE IF c.op = "Clip_analysis" THEN c.args[3]
             ELSE c.args[1]
Trace == [i \in 1..Len(calls) |-> <<calls[i].op, Target(calls[i])>>]
Invoked == Len(calls') = Len(calls) + 1
\* the buffer of this run: of the roads as they were at the start, at the
\* distance the caller supplied
FreshBuffer ==
    BufferGeom(store0[major_roads], param \o " Miles", "FULL", "ROUND", "ALL", "", "PLANAR")
FreshClip == ClipGeom(store0[tracts], FreshBuffer, "")
\* the store a successful run leaves, from the inputs and the distance alone
ExpectedStore(t, r, v) ==
    LET b == BufferGeom(r, v \o " Miles", "FULL", "ROUND", "ALL", "", "PLANAR") IN
    [p \in Paths |-> IF p = tracts THEN t
                     ELSE IF p = major_roads THEN r
                     ELSE IF p = major_roads_Buffer THEN b
                     ELSE ClipGeom(t, b, "")]
\* the orders of operations a complete run may show
FullTrace(d1, d2) ==
    <<<<"GetParameterAsText", "0">>, <<"Exists", major_roads_Buffer>>>>
    \o (IF d1 THEN <<<<"Delete_management", major_roads_Buffer>>>> ELSE <<>>)
    \o <<<<"Exists", tracts_Clip>>>>
    \o (IF d2 THEN <<<<"Delete_management", tracts_Clip>>>> ELSE <<>>)
    \o <<<<"Buffer_analysis", major_roads_Buffer>>, <<"Clip_analysis", tracts_Clip>>>>

\* C1: when Buffer_analysis is about to be invoked major_roads_Buffer is not
\* in the store, and when Clip_analysis is about to be invoked tracts_Clip is
\* not in the store, whatever the store held when the run began.
C1_AbsentBeforeCreate ==
    /\ pc = "L31" => ~Exists(store, major_roads_Buffer)
    /\ pc = "L34" => ~Exists(store, tracts_Clip)
C1_Witness ==
    /\ pc = "L34"
    /\ Exists(store0, major_roads_Buffer)
    /\ Exists(store0, tracts_Clip)

\* C2: after a successful run tracts_Clip holds the clip of tracts by the
\* buffer of major_roads computed in this run at the supplied distance, not
\* by a buffer left in the store by an earlier run.
C2_ClipOfFreshBuffer ==
    pc = "done" => store[tracts_Clip] = FreshClip
C2_Witness ==
    /\ pc = "done"
    /\ prev # NoPrev
    /\ prev.param # param
    /\ store0[major_roads_Buffer] = prev.buffer

\* C3: a successful run with the same parameter as the previous successful
\* run leaves major_roads_Buffer and tracts_Clip with the contents that run
\* left.
C3_RerunSameOutputs ==
    (pc = "done" /\ prev # NoPrev /\ prev.param = param) =>
        /\ store[major_roads_Buffer] = prev.buffer
        /\ store[tracts_Clip] = prev.clip
C3_Witness ==
    /\ pc = "done"
    /\ prev # NoPrev
    /\ prev.param = param
    /\ Len(calls) = 7

\* C4: the store after a successful run is a function of the two inputs and
\* the distance only, so it is the same for all four combinations of the
\* outputs being present or absent beforehand, and both outputs exist.
C4_FinalStoreIgnoresPriorOutputs ==
    pc = "done" =>
        /\ store = ExpectedStore(store0[tracts], store0[major_roads], param)
        /\ Exists(store, major_roads_Buffer)
        /\ Exists(store, tracts_Clip)
C4_Witness ==
    /\ pc = "done"
    /\ ~Exists(store0, major_roads_Buffer)
    /\ Exists(store0, tracts_Clip)

\* C5: no step of the script changes tracts or major_roads, and every
\* delete, buffer or clip the script invokes is aimed at major_roads_Buffer
\* or tracts_Clip; this holds in failed runs as in successful ones.
C5_InputsReadOnly ==
    [][/\ store'[tracts] = store[tracts]
       /\ store'[major_roads] = store[major_roads]
       /\ (Invoked /\ Last(calls').op \in {"Delete_management", "Buffer_analysis", "Clip_analysis"})
              => Target(Last(calls')) \in Outputs]_vars
C5_Witness ==
    /\ pc = "failed"
    /\ Len(calls) = 7
    /\ store[tracts_Clip] = Partial

\* C6: a call that raised is the last call of its run and the run is over:
\* nothing is invoked after a failure, the failed operation is not invoked
\* again, and Clip_analysis is not invoked when Buffer_analysis failed.
C6_FailureTerminates ==
    /\ \A i \in 1..Len(calls) : calls[i].result = "raised" => (i = Len(calls) /\ pc = "failed")
    /\ pc = "failed" => (Len(calls) > 0 /\ Last(calls).result = "raised")
    /\ pc = "failed" => ~ENABLED (GetParameter \/ Guard1 \/ Delete1 \/ Guard2 \/ Delete2 \/ Buffer \/ Clip)
C6_Witness ==
    /\ pc = "failed"
    /\ Last(calls).op = "Buffer_analysis"
    /\ CallsOf("Clip_analysis") = {}

\* C7: a successful run invokes Buffer_analysis exactly once, with
\* major_roads, major_roads_Buffer, parameter 0 followed by " Miles", FULL,
\* ROUND, ALL, an empty dissolve field and PLANAR.
C7_BufferCall ==
    pc = "done" =>
        /\ Cardinality(CallsOf("Buffer_analysis")) = 1
        /\ \A i \in CallsOf("Buffer_analysis") :
              calls[i].args = <<major_roads, major_roads_Buffer, param \o " Miles",
                                "FULL", "ROUND", "ALL", "", "PLANAR">>
C7_Witness ==
    /\ pc = "done"
    /\ run = 2
    /\ prev # NoPrev
    /\ prev.param # param
    /\ calls[Len(calls) - 1].args[3] = param \o " Miles"

\* C8: the operations of a run are a prefix of: exists(major_roads_Buffer),
\* optional delete of it, exists(tracts_Clip), optional delete of it, buffer,
\* clip; a run that ends normally shows the whole sequence and ends with the
\* clip, after which nothing more is invoked.
C8_FixedOrder ==
    /\ \E d1, d2 \in BOOLEAN : IsPrefix(Trace, FullTrace(d1, d2))
    /\ pc = "done" <=> (Len(calls) > 0 /\ Last(calls) = Call("Clip_analysis", ClipArgs, "ok"))
    /\ pc = "done" => \E d1, d2 \in BOOLEAN : Trace = FullTrace(d1, d2)
    /\ pc = "done" => ~ENABLED (GetParameter \/ Guard1 \/ Delete1 \/ Guard2 \/ Delete2 \/ Buffer \/ Clip)
C8_Witness ==
    /\ pc = "done"
    /\ Trace = FullTrace(TRUE, TRUE)

\* C9: Delete_management is invoked only right after Exists returned true
\* for the same dataset, which is then in the store; the first guard deletes
\* exactly when major_roads_Buffer existed at the start and the second exactly
\* when tracts_Clip existed at the start, each regardless of the other.
C9_GuardedDelete ==
    [][/\ (pc = "L23" /\ pc' # "failed") => (pc' = "L25" <=> Exists(store0, major_roads_Buffer))
       /\ (pc = "L26" /\ pc' # "failed") => (pc' = "L28" <=> Exists(store0, tracts_Clip))
       /\ (Invoked /\ Last(calls').op = "Delete_management") =>
              /\ Exists(store, Target(Last(calls')))
              /\ Len(calls) > 0
              /\ Last(calls) = Call("Exists", <<Target(Last(calls'))>>, "True")]_vars
C9_Witness ==
    /\ pc = "L31"
    /\ ~Exists(store0, major_roads_Buffer)
    /\ Exists(store0, tracts_Clip)
    /\ Trace[4] = <<"Delete_management", tracts_Clip>>

\* C10: when Buffer_analysis fails leaving no output, neither output exists
\* at termination, whatever existed before the run; when Clip_analysis fails
\* leaving no output, major_roads_Buffer holds this run's buffer and
\* tracts_Clip does not exist.
C10_NoRecovery ==
    (pc = "failed" /\ Len(calls) > 0) =>
        /\ (Last(calls).op = "Buffer_analysis" /\ store[major_roads_Buffer] # Partial) =>
              (~Exists(store, major_roads_Buffer) /\ ~Exists(store, tracts_Clip))
        /\ (Last(calls).op = "Clip_analysis" /\ store[tracts_Clip] # Partial) =>
              (store[major_roads_Buffer] = FreshBuffer /\ ~Exists(store, tracts_Clip))
C10_Witness ==
    /\ pc = "failed"
    /\ Last(calls).op = "Buffer_analysis"
    /\ Exists(store0, major_roads_Buffer)
    /\ Exists(store0, tracts_Clip)
    /\ ~Exists(store, major_roads_Buffer)

====
